---- MODULE Spec2Model ----
(***************************************************************************)
(* A model of research_agent.py: the Streamlit script that checks the API  *)
(* key and declares the data models, the fact-saving tool and the three    *)
(* agents.  Three parts of the file are modelled:                          *)
(*   - the top-level script, statement by statement (Spec);                *)
(*   - the tool save_important_fact, step by step (SpecSeq, SpecConc);     *)
(*   - the output schema ResearchPlan (SpecPlan).                          *)
(* The file holds no topic form and no Runner call: nothing in it starts   *)
(* an agent, so no stage-ordering behaviour is modelled.                   *)
(***************************************************************************)
EXTENDS Integers, Sequences, FiniteSets, TLC

VARIABLES
    \* ---- the script run ----
    pc,             \* the statement the script is about to execute
    environ,        \* os.environ's OPENAI_API_KEY: <<>> unset, <<v>> set to v
    dotenv,         \* the .env file's OPENAI_API_KEY entry, same encoding
    ui,             \* the Streamlit commands issued in this run, in order
    defined,        \* the module-level names bound so far in this run
    runs,           \* script runs started (Streamlit reruns the script)
    \* ---- the session and the tool save_important_fact ----
    session_state,  \* st.session_state: key |-> reference to a list
    lists,          \* the list objects, by reference
    tpc,            \* per caller: position inside save_important_fact
    targ,           \* per caller: the arguments [fact, source]
    tref,           \* per caller: the list reference loaded at line 90
    tts,            \* per caller: the timestamp formatted at line 93
    tret,           \* per caller: the value returned at line 96
    clock,          \* the wall clock, in seconds
    calls,          \* the arguments of the calls made, in call order
    returned,       \* number of calls that have returned
    threaded,       \* TRUE: calls run on worker threads and may interleave
    \* ---- the ResearchPlan schema ----
    candidate,      \* the object offered as the Triage Agent's output
    plan            \* <<>> or <<p>>: the last object accepted as a ResearchPlan

scriptVars == <<pc, environ, dotenv, ui, defined, runs>>
factVars == <<session_state, lists, tpc, targ, tref, tts, tret, clock, calls,
              returned, threaded>>
planVars == <<candidate, plan>>
vars == <<pc, environ, dotenv, ui, defined, runs,
          session_state, lists, tpc, targ, tref, tts, tret, clock, calls,
          returned, threaded, candidate, plan>>

\* ------------------------------------------------------------------ bounds
MaxRuns == 2
MaxCalls == 3
MaxTicks == 3
MaxListLen == 6
\* The wall clock at the start of the session: 23:59:58.
StartClock == 86398

\* Optional values: <<>> is None / unset, <<v>> is the value v.
None == <<>>
Some(v) == <<v>>

KeyValues == {None, Some(""), Some("sk-test")}

\* ============================================================ the script

\* load_dotenv() with the default override=False: a variable of the .env
\* file is copied into os.environ only when os.environ does not hold it.
LoadDotenvResult(env, file) == IF env = None THEN file ELSE env

\* A check that only asks whether the variable is set.
KeyUnset(env) == env = None

\* not os.environ.get("OPENAI_API_KEY"): None and "" are both falsy.
KeyMissing(env) == env = None \/ env = Some("")

ScriptInit ==
    /\ pc = "load_dotenv"
    /\ environ \in KeyValues
    /\ dotenv \in KeyValues
    /\ ui = <<>>
    /\ defined = {}
    /\ runs = 1

\* A statement that only issues a Streamlit command.
Render(at, cmd, next) ==
    /\ pc = at
    /\ ui' = Append(ui, cmd)
    /\ pc' = next
    /\ UNCHANGED <<environ, dotenv, defined, runs, factVars, planVars>>

\* A statement that only binds a module-level name.
Define(at, name, next) ==
    /\ pc = at
    /\ defined' = defined \cup {name}
    /\ pc' = next
    /\ UNCHANGED <<environ, dotenv, ui, runs, factVars, planVars>>

LoadDotenv ==
    /\ pc = "load_dotenv"
    /\ environ' = LoadDotenvResult(environ, dotenv)
    /\ pc' = "set_page_config"
    /\ UNCHANGED <<dotenv, ui, defined, runs, factVars, planVars>>

SetPageConfig == Render("set_page_config", "set_page_config", "check_key")

CheckKey ==
    /\ pc = "check_key"
    /\ pc' = IF KeyMissing(environ) THEN "error" ELSE "title"
    /\ UNCHANGED <<environ, dotenv, ui, defined, runs, factVars, planVars>>

ShowError == Render("error", "error", "stop")

Stop ==
    /\ pc = "stop"
    /\ pc' = "stopped"
    /\ UNCHANGED <<environ, dotenv, ui, defined, runs, factVars, planVars>>

Title == Render("title", "title", "subheader")
Subheader == Render("subheader", "subheader", "markdown")
Markdown == Render("markdown", "markdown", "ResearchPlan")

DefineResearchPlan == Define("ResearchPlan", "ResearchPlan", "ResearchReport")
DefineResearchReport ==
    Define("ResearchReport", "ResearchReport", "save_important_fact")
DefineSaveImportantFact ==
    Define("save_important_fact", "save_important_fact", "research_agent")
DefineResearchAgent == Define("research_agent", "research_agent", "editor_agent")
DefineEditorAgent == Define("editor_agent", "editor_agent", "triage_agent")

\* Agent(..., handofs=[...]): the keyword is not the constructor's handoffs.
\* The constructor belongs to the agents package, not to this file, so both
\* of its possible answers are kept: it refuses the unknown keyword (the
\* script ends with a TypeError and triage_agent stays unbound) ...
DefineTriageAgentRaises ==
    /\ pc = "triage_agent"
    /\ pc' = "raised"
    /\ UNCHANGED <<environ, dotenv, ui, defined, runs, factVars, planVars>>

\* ... or it takes it, and the script reaches its last line.
DefineTriageAgent == Define("triage_agent", "triage_agent", "end")

ScriptOver == pc \in {"stopped", "raised", "end"}

\* Streamlit runs the script again from the top on the next interaction, in
\* the same process: os.environ and the session survive, the page and the
\* module namespace start empty.
Rerun ==
    /\ ScriptOver
    /\ runs < MaxRuns
    /\ runs' = runs + 1
    /\ pc' = "load_dotenv"
    /\ ui' = <<>>
    /\ defined' = {}
    /\ UNCHANGED <<environ, dotenv, factVars, planVars>>

Next ==
    \/ LoadDotenv
    \/ SetPageConfig
    \/ CheckKey
    \/ ShowError
    \/ Stop
    \/ Title
    \/ Subheader
    \/ Markdown
    \/ DefineResearchPlan
    \/ DefineResearchReport
    \/ DefineSaveImportantFact
    \/ DefineResearchAgent
    \/ DefineEditorAgent
    \/ DefineTriageAgentRaises
    \/ DefineTriageAgent
    \/ Rerun

\* The script state in which the tool and the data models exist: the key is
\* set and the script has executed its lines up to 96.
ScriptAtTool ==
    /\ pc = "research_agent"
    /\ environ = Some("sk-test")
    /\ dotenv = None
    /\ ui = <<"set_page_config", "title", "subheader", "markdown">>
    /\ defined = {"ResearchPlan", "ResearchReport", "save_important_fact"}
    /\ runs = 1

\* ============================================= save_important_fact (75-96)

Callers == {1, 2}
Facts == {"", "GPT-5 released"}
Sources == {None, Some("https://example.org")}
Key == "collected_facts"
Idle == [fact |-> "", source |-> None]

\* datetime.now().strftime("%H:%M:%S"), as a sequence of characters.
DigitChars == <<"0", "1", "2", "3", "4", "5", "6", "7", "8", "9">>
TwoDigits(n) == <<DigitChars[(n \div 10) + 1], DigitChars[(n % 10) + 1]>>
StrfTime(t) ==
    TwoDigits((t \div 3600) % 24) \o <<":">> \o
    TwoDigits((t \div 60) % 60) \o <<":">> \o
    TwoDigits(t % 60)

\* f"Fact saved: {fact}"
Confirmation(fact) == "Fact saved: " \o fact

\* The dict literal of lines 90-94.
FactRecord(fact, source, timestamp) ==
    [fact |-> fact, source |-> source, timestamp |-> timestamp]

\* A call that starts a new list every time.
NoFactsAlways(ss) == TRUE

\* "collected_facts" not in st.session_state
NoFacts(ss) == Key \notin DOMAIN ss

\* st.session_state.collected_facts = []  (a fresh list object is bound)
WithNewList(ss, ref) == [k \in DOMAIN ss \cup {Key} |-> IF k = Key THEN ref ELSE ss[k]]

\* The session's collection as a reader of st.session_state sees it.
Store == IF NoFacts(session_state) THEN <<>> ELSE lists[session_state[Key]]

FactInit ==
    /\ session_state = [k \in {} |-> 0]
    /\ lists = <<>>
    /\ tpc = [t \in Callers |-> "idle"]
    /\ targ = [t \in Callers |-> Idle]
    /\ tref = [t \in Callers |-> 0]
    /\ tts = [t \in Callers |-> <<>>]
    /\ tret = [t \in Callers |-> None]
    /\ clock = StartClock
    /\ calls = <<>>
    /\ returned = 0

\* The agent calls the tool.  Without worker threads (threaded = FALSE) a
\* call starts only when no other call is in progress.
Begin(t, fact, source) ==
    /\ tpc[t] = "idle"
    /\ Len(calls) < MaxCalls
    /\ threaded \/ \A u \in Callers : tpc[u] = "idle"
    /\ targ' = [targ EXCEPT ![t] = [fact |-> fact, source |-> source]]
    /\ calls' = Append(calls, [fact |-> fact, source |-> source])
    /\ tpc' = [tpc EXCEPT ![t] = "test"]
    /\ UNCHANGED <<session_state, lists, tref, tts, tret, clock, returned, threaded, scriptVars, planVars>>

\* line 87
Test(t) ==
    /\ tpc[t] = "test"
    /\ tpc' = [tpc EXCEPT ![t] = IF NoFacts(session_state) THEN "create" ELSE "load"]
    /\ UNCHANGED <<session_state, lists, targ, tref, tts, tret, clock, calls,
                   returned, threaded, scriptVars, planVars>>

\* line 88
Create(t) ==
    /\ tpc[t] = "create"
    /\ lists' = Append(lists, <<>>)
    /\ session_state' = WithNewList(session_state, Len(lists) + 1)
    /\ tpc' = [tpc EXCEPT ![t] = "load"]
    /\ UNCHANGED <<targ, tref, tts, tret, clock, calls, returned, threaded, scriptVars, planVars>>

\* line 90: st.session_state.collected_facts is evaluated to a list object
Load(t) ==
    /\ tpc[t] = "load"
    /\ tref' = [tref EXCEPT ![t] = session_state[Key]]
    /\ tpc' = [tpc EXCEPT ![t] = "now"]
    /\ UNCHANGED <<session_state, lists, targ, tts, tret, clock, calls,
                   returned, threaded, scriptVars, planVars>>

\* lines 91-93: the argument of append is built, the clock is read
Now(t) ==
    /\ tpc[t] = "now"
    /\ tts' = [tts EXCEPT ![t] = StrfTime(clock)]
    /\ tpc' = [tpc EXCEPT ![t] = "append"]
    /\ UNCHANGED <<session_state, lists, targ, tref, tret, clock, calls,
                   returned, threaded, scriptVars, planVars>>

\* lines 90-94: list.append on the object loaded
AppendFact(t) ==
    /\ tpc[t] = "append"
    /\ lists' = [lists EXCEPT ![tref[t]] =
                    Append(@, FactRecord(targ[t].fact, targ[t].source, tts[t]))]
    /\ tpc' = [tpc EXCEPT ![t] = "return"]
    /\ UNCHANGED <<session_state, targ, tref, tts, tret, clock, calls,
                   returned, threaded, scriptVars, planVars>>

\* line 96
Return(t) ==
    /\ tpc[t] = "return"
    /\ tret' = [tret EXCEPT ![t] = Some(Confirmation(targ[t].fact))]
    /\ returned' = returned + 1
    /\ tpc' = [tpc EXCEPT ![t] = "idle"]
    /\ UNCHANGED <<session_state, lists, targ, tref, tts, clock, calls, threaded, scriptVars, planVars>>

\* The wall clock advances.
Tick ==
    /\ clock < StartClock + MaxTicks
    /\ clock' = clock + 1
    /\ UNCHANGED <<session_state, lists, tpc, targ, tref, tts, tret, calls,
                   returned, threaded, scriptVars, planVars>>

NextFacts ==
    \/ \E t \in Callers, fact \in Facts, source \in Sources : Begin(t, fact, source)
    \/ \E t \in Callers : Test(t)
    \/ \E t \in Callers : Create(t)
    \/ \E t \in Callers : Load(t)
    \/ \E t \in Callers : Now(t)
    \/ \E t \in Callers : AppendFact(t)
    \/ \E t \in Callers : Return(t)
    \/ Tick

\* ======================================================= ResearchPlan (61-64)

\* JSON values as the model's output carries them: a tag and, for a string,
\* its text.
JStr(v) == [t |-> "str", v |-> v]
JNull == [t |-> "null", v |-> ""]
JInt == [t |-> "int", v |-> "7"]
IsStr(x) == x.t = "str"

\* list[str]: every element is a string; the declaration gives no length.
IsListOfStr(xs) == \A i \in 1..Len(xs) : IsStr(xs[i])

\* ResearchPlan's validation: topic: str, search_queries: list[str],
\* focus_areas: list[str].
ValidPlan(obj) ==
    /\ IsStr(obj.topic)
    /\ IsListOfStr(obj.search_queries)
    /\ IsListOfStr(obj.focus_areas)

Texts(xs) == [i \in 1..Len(xs) |-> xs[i].v]

\* The ResearchPlan instance built from a valid object.
MakePlan(obj) ==
    [topic |-> obj.topic.v,
     search_queries |-> Texts(obj.search_queries),
     focus_areas |-> Texts(obj.focus_areas)]

\* The objects a model may answer with.
Strings(n) == [i \in 1..n |-> JStr("s")]
JLists == {Strings(n) : n \in 0..MaxListLen} \cup {<<JStr("s"), JInt, JStr("s")>>}
JTopics == {JStr(""), JStr("AI safety"), JNull}
Outputs == [topic : JTopics, search_queries : JLists, focus_areas : JLists]

PlanInit ==
    /\ candidate = None
    /\ plan = None

\* The model's answer arrives.
ReceiveOutput(obj) ==
    /\ candidate = None
    /\ candidate' = Some(obj)
    /\ UNCHANGED <<plan, scriptVars, factVars>>

\* output_type=ResearchPlan: the answer validates and becomes the plan.
AcceptPlan ==
    /\ candidate # None
    /\ ValidPlan(candidate[1])
    /\ plan' = Some(MakePlan(candidate[1]))
    /\ candidate' = None
    /\ UNCHANGED <<scriptVars, factVars>>

\* The answer does not validate: no plan is made of it.
RejectPlan ==
    /\ candidate # None
    /\ ~ValidPlan(candidate[1])
    /\ candidate' = None
    /\ UNCHANGED <<plan, scriptVars, factVars>>

NextPlan ==
    \/ \E obj \in Outputs : ReceiveOutput(obj)
    \/ AcceptPlan
    \/ RejectPlan

\* ========================================================= specifications

\* The script, from process start.
Init ==
    /\ ScriptInit
    /\ FactInit
    /\ threaded = FALSE
    /\ PlanInit

Spec == Init /\ [][Next]_vars

\* Calls of save_important_fact, one at a time.
InitSeq ==
    /\ ScriptAtTool
    /\ FactInit
    /\ threaded = FALSE
    /\ PlanInit

\* Calls of save_important_fact from worker threads.
InitConc ==
    /\ ScriptAtTool
    /\ FactInit
    /\ threaded = TRUE
    /\ PlanInit

SpecSeq == InitSeq /\ [][NextFacts]_vars
SpecConc == InitConc /\ [][NextFacts]_vars

\* Objects offered to the ResearchPlan schema.
SpecPlan == InitSeq /\ [][NextPlan]_vars

\* ============================================================= properties

AllIdle == \A t \in Callers : tpc[t] = "idle"

\* Order of the characters of a time-of-day string, and the order of strings
\* (character by character, a proper prefix first).
CharOrder == DigitChars \o <<":">>
Ord(c) == CHOOSE i \in 1..Len(CharOrder) : CharOrder[i] = c
ShorterLen(a, b) == IF Len(a) <= Len(b) THEN Len(a) ELSE Len(b)
StrLeq(a, b) ==
    \/ Len(a) <= Len(b) /\ \A i \in 1..Len(a) : a[i] = b[i]
    \/ \E k \in 1..ShorterLen(a, b) :
          /\ \A i \in 1..(k - 1) : a[i] = b[i]
          /\ Ord(a[k]) < Ord(b[k])

\* ---- C5 ----
\* C5: with calls of save_important_fact interleaving step by step, no append
\* is lost: once every call made has returned, the session's collection holds
\* as many records as calls have returned.
C5_NoLostAppend == AllIdle => Len(Store) = returned

\* ---- C6 ----
\* The confirmation each fact is answered with, written out.
ExpectedConfirmation(fact) ==
    IF fact = "" THEN "Fact saved: " ELSE "Fact saved: GPT-5 released"

C6_State ==
    \* the stored facts are the facts of the calls, in call order
    /\ Len(Store) <= Len(calls)
    /\ \A i \in 1..Len(Store) :
          /\ Store[i].fact = calls[i].fact
          /\ Store[i].source = calls[i].source
    \* one record per call
    /\ AllIdle => Len(Store) = Len(calls) /\ returned = Len(calls)
    \* the value returned
    /\ \A t \in Callers :
          (tpc[t] = "idle" /\ tret[t] # None) =>
              tret[t] = Some(ExpectedConfirmation(targ[t].fact))

C6_Step ==
    \* a step changes the collection only by adding one record at its end
    /\ \/ Store' = Store
       \/ /\ Len(Store') = Len(Store) + 1
          /\ SubSeq(Store', 1, Len(Store)) = Store
    \* and it is the append of a call that adds it
    /\ Store' # Store => \E t \in Callers : tpc[t] = "append" /\ tpc'[t] = "return"

\* C6: the Fact Store is append-only.  Each call of save_important_fact, run
\* to its end, adds exactly one record at the end of the session's collection
\* (created first when absent), leaves the earlier records and their
\* positions as they were, and returns "Fact saved: " followed by the fact,
\* also for an empty fact and a missing source; the stored facts are the
\* facts of the calls in call order.
C6_AppendOnly == []C6_State /\ [][C6_Step]_vars

\* Two calls have returned, the first with an empty fact and no source.
C6_Witness ==
    /\ AllIdle
    /\ returned = 2
    /\ Len(Store) = 2
    /\ Store[1].fact = ""
    /\ Store[1].source = None
    /\ Store[2].fact = "GPT-5 released"

\* ---- C7 ----
\* C7: the timestamps of the stored records, read in store order, never
\* decrease, also when the appends span midnight.
C7_TimestampsNonDecreasing ==
    \A i, j \in 1..Len(Store) :
        i < j => StrLeq(Store[i].timestamp, Store[j].timestamp)

\* ---- C8 ----
KeyAbsent == environ = None \/ environ = Some("")

\* C8 as stated: with the key absent the run halts having rendered nothing
\* but the error message, the page configuration included.
C8_OnlyErrorRendered ==
    (pc = "stopped" /\ KeyAbsent) => ui = <<"error">> /\ defined = {}

\* C8, amended: when OPENAI_API_KEY is unset or empty after load_dotenv, the
\* run applies the page configuration, shows the error and halts: the title
\* and the rest of the page are never rendered and no data model, tool or
\* agent is defined.
C8_HaltsBeforeAgents ==
    (KeyAbsent /\ pc # "load_dotenv") =>
        /\ pc \in {"set_page_config", "check_key", "error", "stop", "stopped"}
        /\ defined = {}
        /\ ui \in {<<>>, <<"set_page_config">>, <<"set_page_config", "error">>}
        /\ pc \in {"stop", "stopped"} => ui = <<"set_page_config", "error">>

\* The run has halted on an empty key.
C8_Witness ==
    /\ pc = "stopped"
    /\ environ = Some("")
    /\ ui = <<"set_page_config", "error">>

\* ---- C9 ----
\* C9: every object accepted as a ResearchPlan has a non-empty topic, 3 to 5
\* search_queries and 3 to 5 focus_areas.
C9_PlanLengths ==
    plan # None =>
        /\ plan[1].topic # ""
        /\ Len(plan[1].search_queries) \in 3..5
        /\ Len(plan[1].focus_areas) \in 3..5

====
